---- MODULE Spec2Model ----
(***************************************************************************)
(* Model of the NSX-T agent's reconciliation and synchronization engine    *)
(* (networking_nsxv3/plugins/ml2/drivers/nsxv3/agent/nsxv3_agent.py).      *)
(*                                                                         *)
(* The specifications of this module:                                      *)
(*   SpecDiff     the revision diff _sync_get_content on arbitrary maps;   *)
(*   SpecRules    security_group_rule_updated on one group's rule section; *)
(*   Spec         sync_inventory, the two passes, the Runner and its       *)
(*                workers, the stores and the timestamp marker;            *)
(*   SpecPage     the paging loop of get_revisions over a changing table   *)
(*                (SpecPageLive: the same with the loop scheduled fairly); *)
(*   SpecLocks    the handlers and sync_inventory as threads taking the    *)
(*                LockManager's locks;                                     *)
(*   SpecNotify   the change notifications feeding the Runner;             *)
(*   SpecDevices  get_all_devices, the periodic trigger of sync_inventory. *)
(***************************************************************************)
EXTENDS Integers, Sequences, FiniteSets, TLC

VARIABLES
    \* ---- SpecDiff: one call of _sync_get_content
    diff_src,       \* the source table: key -> revision number (an int)
    diff_tgt,       \* revs_nsx: key -> revision token (a string)
    diff_out        \* <<called, result>>: the call's result once it was made

VARIABLES
    \* ---- SpecRules: security_group_rule_updated on one security group
    rule_section,   \* the group's firewall section in the target store:
                    \*   rule name -> [id, disabled]
    rule_source,    \* the authoritative rules of the group, a list of names
    rule_ips,       \* the IPSets of the target store: group id -> reference
    rule_call       \* the last run of the handler: what it read and submitted

VARIABLES
    \* ---- Spec: the synchronizer, the Runner and the stores
    target,         \* the target store: kind -> (key -> revision token)
    ts_age,         \* the marker last_full_synchronization: the time since
                    \*   it was written, NoMarker when it does not exist
    queue,          \* the Runner's backlog: work units in submission order
    running,        \* the work units the Runner's workers are executing
    sync_pc,        \* where sync_inventory is (idle: not running)
    sync_n,         \* the number of sync_inventory invocations so far
    sync_pass,      \* what the current (or last) invocation did: none,
                    \*   skipped, full, shallow, raised
    sync_batches,   \* the runner.run calls of the current invocation
    sync_report,    \* kind -> the diff the current shallow pass computed
    sync_after,     \* the current invocation follows a shallow pass whose
                    \*   work units all ran to completion without error
    ts_written_by,  \* the invocation that last wrote the marker (0: none)
    raised,         \* the number of work units that raised so far
    failed          \* a work unit of the current (or last) invocation raised

VARIABLES
    \* ---- SpecPage: one call of get_revisions
    page_table,     \* the source table: key -> [rev, created]
    page_limit,     \* cfg.CONF.AGENT.rpc_max_records_per_query
    page_pc,        \* idle, loop (inside while True), done (returned)
    page_after,     \* created_after
    page_rev,       \* rev: key -> str(revision)
    page_start,     \* the keys of the table when the call began
    page_count      \* the number of pages the call has read

VARIABLES
    \* ---- SpecLocks: threads running handlers under the LockManager
    lk_holders,     \* lock key -> the threads holding that lock
    th_prog,        \* thread -> the steps of the operation it runs
    th_pc,          \* thread -> its position in th_prog (0: no operation)
    th_last         \* thread -> how its last operation ended, and its key

VARIABLES
    \* ---- SpecNotify: the inbound change notifications
    notify_n,       \* the number of notifications received so far
    notify_last     \* the last notification: its method and its payload

VARIABLES
    \* ---- SpecDevices: NSXv3Manager.get_all_devices
    dev_rpc,        \* self.rpc is set (get_rpc_callbacks was called)
    dev_now,        \* time.time()
    dev_last_sync_time, \* self.last_sync_time
    dev_call        \* the last call of get_all_devices and how it ended

diffVars == <<diff_src, diff_tgt, diff_out>>
pageVars == <<page_table, page_limit, page_pc, page_after, page_rev,
              page_start, page_count>>
lockVars == <<lk_holders, th_prog, th_pc, th_last>>
notifyVars == <<notify_n, notify_last>>
devVars == <<dev_rpc, dev_now, dev_last_sync_time, dev_call>>
auxVars == <<pageVars, lockVars, notifyVars, devVars>>
ruleVars == <<rule_section, rule_source, rule_ips, rule_call>>
storeVars == <<target, ts_age>>
runnerVars == <<queue, running, raised, failed>>
syncVars == <<sync_pc, sync_n, sync_pass, sync_batches, sync_report,
              sync_after, ts_written_by>>
engineVars == <<storeVars, runnerVars, syncVars>>

vars == <<diffVars, ruleVars, engineVars, auxVars>>

\* Python's None (the result of dict.get on a missing key, an absent value).
None == "None"

\* The partial maps from Keys to Vals (Python dicts with keys among Keys).
Maps(Keys, Vals) == UNION {[S -> Vals] : S \in SUBSET Keys}

\* dict.get(key): the value, or None when the key is missing.
Get(m, k) == IF k \in DOMAIN m THEN m[k] ELSE None

EmptyMap == [k \in {} |-> None]

(***************************************************************************)
(* Revision retrieval and revision diff                                    *)
(***************************************************************************)

\* get_revisions(query): rev[port] = str(revision) for every record the
\* paging loop reads.  The page limit is taken larger than the table, so the
\* first page holds every record and the loop stops after it.
GetRevisions(table) == [k \in DOMAIN table |-> ToString(table[k])]

\* _sync_get_content that reports every key of the target as orphaned.
SyncGetContentAllOrphaned(revs_os, revs_nsx) ==
    [outdated |-> {k \in DOMAIN revs_os : Get(revs_nsx, k) # revs_os[k]},
     orphaned |-> DOMAIN revs_nsx]

\* _sync_get_content with the `is outdated' test dropping missing keys.
SyncGetContentSkipMissing(revs_os, revs_nsx) ==
    [outdated |-> {k \in DOMAIN revs_os :
                      k \in DOMAIN revs_nsx /\ revs_nsx[k] # revs_os[k]},
     orphaned |-> DOMAIN revs_nsx \ DOMAIN revs_os]

\* _sync_get_content(sdk_model, os_query), given the two maps it reads:
\*   for key, rev in revs_os.items(): if revs_nsx.get(key) != rev: outdated.add
\*   orphaned = set(revs_nsx.keys()).difference(revs_os.keys())
SyncGetContent(revs_os, revs_nsx) ==
    [outdated |-> {k \in DOMAIN revs_os : Get(revs_nsx, k) # revs_os[k]},
     orphaned |-> DOMAIN revs_nsx \ DOMAIN revs_os]

RangeOf(f) == {f[x] : x \in DOMAIN f}

MapRemove(m, k) == [x \in DOMAIN m \ {k} |-> m[x]]

\* ---- SpecDiff ----------------------------------------------------------
DiffKeys == {"A", "B", "C"}
DiffSrcRevs == {1, 2}
DiffTgtRevs == {"1", "2", "9"}

NoDiff == [called |-> FALSE, result |-> [outdated |-> {}, orphaned |-> {}]]

\* Timestamp marker absent from the target store.
NoMarker == -1

NoTarget == [sg |-> EmptyMap, qos |-> EmptyMap, port |-> EmptyMap]

EngineIdle == /\ target = NoTarget
              /\ ts_age = NoMarker
              /\ queue = <<>>
              /\ running = {}
              /\ raised = 0
              /\ failed = FALSE
              /\ sync_pc = "idle"
              /\ sync_n = 0
              /\ sync_pass = "none"
              /\ sync_batches = <<>>
              /\ sync_report = EmptyMap
              /\ sync_after = FALSE
              /\ ts_written_by = 0

NoRuleCall == [called |-> FALSE, pre |-> EmptyMap, auth |-> <<>>,
               ips |-> EmptyMap, rejected |-> {}, add |-> <<>>, del |-> {},
               revision |-> 0, updates |-> <<>>]

NoDevCall == [called |-> FALSE, synced |-> FALSE, raised |-> None,
              propagated |-> FALSE, returned |-> FALSE, result |-> {},
              now |-> 0, elapsed |-> 0, last |-> 0, retry |-> FALSE]

NoNotification == [method |-> None, list |-> FALSE, ids |-> <<>>]

\* The variables of each of the other specifications, at rest.
PageIdle == /\ page_table = EmptyMap
            /\ page_limit = 1
            /\ page_pc = "idle"
            /\ page_after = 0
            /\ page_rev = EmptyMap
            /\ page_start = {}
            /\ page_count = 0

LocksIdle == /\ lk_holders = EmptyMap
             /\ th_prog = EmptyMap
             /\ th_pc = EmptyMap
             /\ th_last = EmptyMap

NotifyIdle == /\ notify_n = 0
              /\ notify_last = NoNotification

DevicesIdle == /\ dev_rpc = FALSE
               /\ dev_now = 0
               /\ dev_last_sync_time = 0
               /\ dev_call = NoDevCall

AuxIdle == PageIdle /\ LocksIdle /\ NotifyIdle /\ DevicesIdle

DiffIdle == /\ diff_src = EmptyMap
            /\ diff_tgt = EmptyMap
            /\ diff_out = NoDiff

RulesIdle == /\ rule_section = EmptyMap
             /\ rule_source = <<>>
             /\ rule_ips = EmptyMap
             /\ rule_call = NoRuleCall

DiffInit == /\ RulesIdle
            /\ EngineIdle
            /\ AuxIdle
            /\ diff_src \in Maps(DiffKeys, DiffSrcRevs)
            /\ diff_tgt \in Maps(DiffKeys, DiffTgtRevs)
            /\ diff_out = NoDiff

DiffCall == /\ ~diff_out.called
            /\ diff_out' = [called |-> TRUE,
                            result |-> SyncGetContent(GetRevisions(diff_src),
                                                      diff_tgt)]
            /\ UNCHANGED <<diff_src, diff_tgt, ruleVars, engineVars, auxVars>>

DiffNext == DiffCall

SpecDiff == DiffInit /\ [][DiffNext]_vars

\* C1: the diff returns outdated = exactly the source keys that are absent
\* from the target map or whose target revision differs from the source
\* revision, and orphaned = exactly the target keys absent from the source.
C1_DiffExact ==
    diff_out.called =>
        /\ \A k \in DiffKeys :
              k \in diff_out.result.outdated <=>
                  /\ k \in DOMAIN diff_src
                  /\ \/ k \notin DOMAIN diff_tgt
                     \/ diff_tgt[k] # ToString(diff_src[k])
        /\ \A k \in DiffKeys :
              k \in diff_out.result.orphaned <=>
                  (k \in DOMAIN diff_tgt /\ k \notin DOMAIN diff_src)

\* The spec's scenario: source {A:"1", B:"2"}, target {A:"1", C:"9"} gives
\* outdated = {B}, orphaned = {C}.
C1_Witness ==
    /\ diff_src = [k \in {"A", "B"} |-> IF k = "A" THEN 1 ELSE 2]
    /\ diff_tgt = [k \in {"A", "C"} |-> IF k = "A" THEN "1" ELSE "9"]
    /\ diff_out.called
    /\ diff_out.result.outdated = {"B"}
    /\ diff_out.result.orphaned = {"C"}

(***************************************************************************)
(* Security-group rule reconciliation: security_group_rule_updated         *)
(***************************************************************************)

\* The group the handler runs for, and the other groups its rules name.
RuleSg == "g1"
RuleGroups == {"g1", "g2"}
RuleNames == {"r1", "r2", "r3"}

\* The target-store objects get_or_create_security_group returns for a group
\* (ipset.id, nsg.id), and the id the target store gives a firewall rule.
IpsetId(g) == CASE g = "g1" -> "ipset-g1" [] g = "g2" -> "ipset-g2"
                [] OTHER -> "ipset-other"
NsgId(g) == CASE g = "g1" -> "nsg-g1" [] g = "g2" -> "nsg-g2"
              [] OTHER -> "nsg-other"
FwrId(name) == CASE name = "r1" -> "fwr-1" [] name = "r2" -> "fwr-2"
                 [] OTHER -> "fwr-3"

\* attrs, the keys copied from a source rule into fwr.
Attrs == {"id", "port_range_min", "port_range_max", "protocol", "ethertype",
          "direction", "remote_group_id", "remote_ip_prefix",
          "security_group_id"}

\* The authoritative rule of each name, as rpc.get_rules_for_security_groups_id
\* returns it: r1 names the remote group g2, r2 no remote group (an IP
\* prefix), r3 a remote group g9 that has no IPSet in the target store.
NeutronRule(name) ==
    [id |-> name,
     port_range_min |-> "22", port_range_max |-> "22",
     protocol |-> "tcp", ethertype |-> "IPv4",
     direction |-> IF name = "r2" THEN "egress" ELSE "ingress",
     remote_group_id |-> CASE name = "r1" -> "g2" [] name = "r2" -> None
                           [] OTHER -> "g9",
     remote_ip_prefix |-> IF name = "r2" THEN "10.0.0.0/8" ELSE None,
     security_group_id |-> RuleSg]

\* BuildFwr that never substitutes the remote group's reference.
BuildFwrNoSubstitution(rule, ipset_id, nsg_id, revs_ips) ==
    [key \in Attrs \cup {"local_group_id", "apply_to"} |->
        CASE key = "local_group_id" -> ipset_id
          [] key = "apply_to" -> nsg_id
          [] OTHER -> rule[key]]

\* Lines 115-122: fwr[key] = rule[key] for key in attrs; local_group_id and
\* apply_to from the owning group; remote_group_id replaced by the IPSet
\* reference when it is a key of revs_ips.
BuildFwr(rule, ipset_id, nsg_id, revs_ips) ==
    [key \in Attrs \cup {"local_group_id", "apply_to"} |->
        CASE key = "local_group_id" -> ipset_id
          [] key = "apply_to" -> nsg_id
          [] key = "remote_group_id" ->
                IF rule.remote_group_id \in DOMAIN revs_ips
                THEN revs_ips[rule.remote_group_id]
                ELSE rule.remote_group_id
          [] OTHER -> rule[key]]

\* nsxv3.get_security_group_rule_spec(fwr): the rule spec built from fwr, or
\* nothing when the facade rejects the rule (`rejected' are the names it
\* rejects in this run).
GetSecurityGroupRuleSpec(fwr, rejected) ==
    [ok |-> fwr.id \notin rejected, spec |-> fwr]

\* RuleIsCurrent that ignores the disabled flag.
RuleIsCurrentIgnoringDisabled(name, revs_fwr, meta_fwr) ==
    name \in DOMAIN revs_fwr

\* RuleIsCurrent that never finds a rule current.
RuleIsCurrentNever(name, revs_fwr, meta_fwr) == FALSE

\* Lines 124-126: the rule exists in the section and is not disabled.
RuleIsCurrent(name, revs_fwr, meta_fwr) ==
    name \in DOMAIN revs_fwr /\ ~meta_fwr[name].disabled

\* KeepMatched that leaves a matched rule among the delete candidates.
KeepMatchedForgetsDel(revs_fwr, name) == revs_fwr

\* Line 127: del revs_fwr[name].
KeepMatched(revs_fwr, name) == MapRemove(revs_fwr, name)

\* Lines 110-133: the loop over neutron_rules, from rule i on, with the
\* add_rules built so far; returns add_rules and what is left of revs_fwr.
RECURSIVE RuleLoop(_, _, _, _, _, _)
RuleLoop(neutron_rules, i, revs_fwr, meta_fwr, ctx, add_rules) ==
    IF i > Len(neutron_rules)
    THEN [add |-> add_rules, revs_fwr |-> revs_fwr]
    ELSE
      LET rule == neutron_rules[i]
          name == rule.id
          fwr == BuildFwr(rule, ctx.ipset_id, ctx.nsg_id, ctx.revs_ips)
          fwr_spec == GetSecurityGroupRuleSpec(fwr, ctx.rejected)
      IN IF RuleIsCurrent(name, revs_fwr, meta_fwr)
         THEN RuleLoop(neutron_rules, i + 1, KeepMatched(revs_fwr, name),
                       meta_fwr, ctx, add_rules)
         ELSE RuleLoop(neutron_rules, i + 1, revs_fwr, meta_fwr, ctx,
                       IF fwr_spec.ok THEN Append(add_rules, fwr_spec.spec)
                       ELSE add_rules)

\* Lines 97-133: what the handler reads and the two lists it submits.
\* nsxv3.get_revisions(FirewallRule, section) gives revs_fwr (name -> id) and
\* meta_fwr (name -> disabled flag); del_rules = revs_fwr.values().
RuleReconcile(sg_id, section, neutron_rules, revs_ips, rejected) ==
    LET revs_fwr == [n \in DOMAIN section |-> section[n].id]
        meta_fwr == [n \in DOMAIN section |-> [disabled |-> section[n].disabled]]
        ctx == [ipset_id |-> IpsetId(sg_id), nsg_id |-> NsgId(sg_id),
                revs_ips |-> revs_ips, rejected |-> rejected]
        out == RuleLoop(neutron_rules, 1, revs_fwr, meta_fwr, ctx, <<>>)
    IN [add |-> out.add, del |-> RangeOf(out.revs_fwr)]

\* nsxv3.update_security_group_rules(sg_id, revision, add_rules, del_rules):
\* one bulk update of the section; the added rules are created enabled.
UpdateSecurityGroupRules(section, add_rules, del_rules) ==
    LET kept == {n \in DOMAIN section : section[n].id \notin del_rules}
        added == {add_rules[i].id : i \in DOMAIN add_rules}
    IN [n \in kept \cup added |->
           IF n \in added THEN [id |-> FwrId(n), disabled |-> FALSE]
           ELSE section[n]]

\* The handler submitting each rule to add in a call of its own, then the
\* deletions.
UpdateCallsRuleByRule(sg_id, revision, add_rules, del_rules) ==
    [i \in 1 .. Len(add_rules) |->
        [sg_id |-> sg_id, revision_number |-> revision,
         add_rules |-> <<add_rules[i]>>, del_rules |-> {}]]
    \o << [sg_id |-> sg_id, revision_number |-> revision,
           add_rules |-> <<>>, del_rules |-> del_rules] >>

\* Lines 137-141: the update_security_group_rules calls the handler makes,
\* with their arguments.
UpdateCalls(sg_id, revision, add_rules, del_rules) ==
    << [sg_id |-> sg_id, revision_number |-> revision,
        add_rules |-> add_rules, del_rules |-> del_rules] >>

\* The section after the calls, in their order.
RECURSIVE ApplyUpdateCalls(_, _)
ApplyUpdateCalls(section, calls) ==
    IF calls = <<>> THEN section
    ELSE ApplyUpdateCalls(
             UpdateSecurityGroupRules(section, Head(calls).add_rules,
                                      Head(calls).del_rules),
             Tail(calls))

\* rpc.get_security_group_revision(sg_id): the revision numbers the source
\* store may report for the group.
MaxRuleRevision == 2
RuleRevisions == 1 .. MaxRuleRevision

\* rpc.get_rules_for_security_groups_id(sg_id): the rules the source store
\* lists for the group, in its order.
NeutronRules(names) == [i \in DOMAIN names |-> NeutronRule(names[i])]

\* ---- SpecRules ---------------------------------------------------------
RulesInit == /\ DiffIdle
             /\ EngineIdle
             /\ AuxIdle
             /\ rule_section = EmptyMap
             /\ rule_source = <<>>
             /\ rule_ips = EmptyMap
             /\ rule_call = NoRuleCall

\* security_group_rule_updated(RuleSg), lines 93-141, under the group's lock:
\* get_or_create_security_group makes sure the group's IPSet exists, the
\* lists are computed and submitted in one update_security_group_rules call.
RuleUpdated ==
    \E rejected \in SUBSET RangeOf(rule_source) :
    \E revision \in RuleRevisions :
        LET revs_ips == [g \in DOMAIN rule_ips \cup {RuleSg} |-> IpsetId(g)]
            neutron_rules == NeutronRules(rule_source)
            out == RuleReconcile(RuleSg, rule_section, neutron_rules,
                                 revs_ips, rejected)
            calls == UpdateCalls(RuleSg, revision, out.add, out.del)
        IN /\ rule_ips' = revs_ips
           /\ rule_call' = [called |-> TRUE, pre |-> rule_section,
                            auth |-> neutron_rules, ips |-> revs_ips,
                            rejected |-> rejected,
                            add |-> out.add, del |-> out.del,
                            revision |-> revision, updates |-> calls]
           /\ rule_section' = ApplyUpdateCalls(rule_section, calls)
           /\ UNCHANGED <<rule_source, diffVars, engineVars, auxVars>>

\* The source store gains a rule of the group.
SourceRuleAdded ==
    \E n \in RuleNames \ RangeOf(rule_source) :
        /\ rule_source' = Append(rule_source, n)
        /\ rule_call' = NoRuleCall
        /\ UNCHANGED <<rule_section, rule_ips, diffVars, engineVars, auxVars>>

\* The source store loses a rule of the group.
SourceRuleRemoved ==
    \E i \in DOMAIN rule_source :
        /\ rule_source' = SubSeq(rule_source, 1, i - 1)
                            \o SubSeq(rule_source, i + 1, Len(rule_source))
        /\ rule_call' = NoRuleCall
        /\ UNCHANGED <<rule_section, rule_ips, diffVars, engineVars, auxVars>>

\* A rule of the section is disabled in the target store.
TargetRuleDisabled ==
    \E n \in DOMAIN rule_section :
        /\ ~rule_section[n].disabled
        /\ rule_section' = [rule_section EXCEPT ![n].disabled = TRUE]
        /\ rule_call' = NoRuleCall
        /\ UNCHANGED <<rule_source, rule_ips, diffVars, engineVars, auxVars>>

\* Another group's IPSet is created in the target store.
RemoteGroupCreated ==
    \E g \in RuleGroups \ DOMAIN rule_ips :
        /\ rule_ips' = [x \in DOMAIN rule_ips \cup {g} |-> IpsetId(x)]
        /\ rule_call' = NoRuleCall
        /\ UNCHANGED <<rule_section, rule_source, diffVars, engineVars, auxVars>>

RulesNext == \/ RuleUpdated
             \/ SourceRuleAdded
             \/ SourceRuleRemoved
             \/ TargetRuleDisabled
             \/ RemoteGroupCreated

SpecRules == RulesInit /\ [][RulesNext]_vars

\* The names of the authoritative rules the last run read, and whether the
\* submitted add-list holds a spec for a name.
CallAuthNames == {rule_call.auth[i].id : i \in DOMAIN rule_call.auth}
CallAdds(name) == \E i \in DOMAIN rule_call.add : rule_call.add[i].id = name

\* C7 as claimed: a disabled target rule R with an authoritative rule R is in
\* the delete-set and a fresh spec for R is in the add-set.
C7_DisabledRecreatedAlways ==
    rule_call.called =>
        \A n \in DOMAIN rule_call.pre \cap CallAuthNames :
            rule_call.pre[n].disabled =>
                /\ rule_call.pre[n].id \in rule_call.del
                /\ CallAdds(n)

\* C7 amended: a disabled target rule R with an authoritative rule R is always
\* in the delete-set; the add-set holds a fresh spec for R exactly when
\* get_security_group_rule_spec returned one for it.
C7_DisabledRecreated ==
    rule_call.called =>
        \A n \in DOMAIN rule_call.pre \cap CallAuthNames :
            rule_call.pre[n].disabled =>
                /\ rule_call.pre[n].id \in rule_call.del
                /\ CallAdds(n) <=> n \notin rule_call.rejected
                /\ n \notin rule_call.rejected =>
                      /\ n \in DOMAIN rule_section
                      /\ ~rule_section[n].disabled

C7_Witness ==
    /\ rule_call.called
    /\ "r1" \in DOMAIN rule_call.pre \cap CallAuthNames
    /\ rule_call.pre["r1"].disabled
    /\ "r1" \notin rule_call.rejected
    /\ rule_call.pre["r1"].id \in rule_call.del
    /\ CallAdds("r1")

\* C8: an enabled target rule R with an authoritative rule R is in neither
\* the add-set nor the delete-set.
C8_EnabledUntouched ==
    rule_call.called =>
        \A n \in DOMAIN rule_call.pre \cap CallAuthNames :
            ~rule_call.pre[n].disabled =>
                /\ rule_call.pre[n].id \notin rule_call.del
                /\ ~CallAdds(n)

C8_Witness ==
    /\ rule_call.called
    /\ "r2" \in DOMAIN rule_call.pre \cap CallAuthNames
    /\ ~rule_call.pre["r2"].disabled
    /\ rule_call.del # {}
    /\ Len(rule_call.add) > 0
    /\ rule_section["r2"] = rule_call.pre["r2"]

\* C9 as claimed: the delete-set is exactly the target rules of the section
\* that have no authoritative rule of the same id.
C9_DeleteIsOrphans ==
    rule_call.called =>
        rule_call.del = {rule_call.pre[n].id :
                            n \in DOMAIN rule_call.pre \ CallAuthNames}

\* C9 amended: the delete-set is exactly the target rules that have no
\* authoritative rule of the same id, together with the disabled target rules
\* that have one.
C9_DeleteIsOrphansAndDisabled ==
    rule_call.called =>
        rule_call.del =
            {rule_call.pre[n].id :
                n \in {m \in DOMAIN rule_call.pre :
                          \/ m \notin CallAuthNames
                          \/ rule_call.pre[m].disabled}}

C9_Witness ==
    /\ rule_call.called
    /\ \E n \in DOMAIN rule_call.pre \ CallAuthNames :
          rule_call.pre[n].id \in rule_call.del
    /\ \E n \in DOMAIN rule_call.pre \cap CallAuthNames :
          /\ rule_call.pre[n].disabled
          /\ rule_call.pre[n].id \in rule_call.del
    /\ \E n \in DOMAIN rule_call.pre \cap CallAuthNames :
          rule_call.pre[n].id \notin rule_call.del

\* C10: every emitted spec carries the mapped reference when the rule's
\* remote_group_id is a key of the resolved group-reference map, the original
\* remote_group_id otherwise; local_group_id and apply_to are the owning
\* group's references.
C10_RemoteGroupSubstitution ==
    rule_call.called =>
        \A i \in DOMAIN rule_call.add :
            LET spec == rule_call.add[i]
                rule == NeutronRule(spec.id)
            IN /\ rule.remote_group_id \in DOMAIN rule_call.ips =>
                    spec.remote_group_id = rule_call.ips[rule.remote_group_id]
               /\ rule.remote_group_id \notin DOMAIN rule_call.ips =>
                    spec.remote_group_id = rule.remote_group_id
               /\ spec.local_group_id = IpsetId(RuleSg)
               /\ spec.apply_to = NsgId(RuleSg)

C10_Witness ==
    /\ rule_call.called
    /\ \E i \in DOMAIN rule_call.add :
          /\ rule_call.add[i].id = "r1"
          /\ rule_call.add[i].remote_group_id = "ipset-g2"
    /\ \E i \in DOMAIN rule_call.add :
          /\ rule_call.add[i].id = "r3"
          /\ rule_call.add[i].remote_group_id = "g9"
    /\ \E i \in DOMAIN rule_call.add :
          /\ rule_call.add[i].id = "r2"
          /\ rule_call.add[i].remote_group_id = None

(***************************************************************************)
(* The synchronizer: sync_inventory, the two passes, the Runner            *)
(***************************************************************************)

\* cfg.CONF.NSXV3.nsxv3_concurrent_requests: the Runner's workers.
NumWorkers == 2
\* cfg.CONF.AGENT.sync_full_schedule: the marker's time to live, in ticks.
SyncFullSchedule == 1
\* The sync_inventory invocations a behaviour holds.
MaxSyncs == 2
\* The work units whose handler raises in a behaviour.
MaxRaised == 1

\* sync.Priority, most urgent first: HIGHEST, HIGHER, HIGH, MEDIUM, LOW, LOWER.
HIGHEST == 6
HIGHER == 5
HIGH == 4
MEDIUM == 3
LOW == 2
LOWER == 1

Kinds == {"sg", "qos", "port"}

\* The source store: revision numbers by key, per kind (the rows the
\* rpc.get_*_revision_tuples queries return).  It does not change.
SourceStore == [sg |-> ("g1" :> 2 @@ "g2" :> 1),
                qos |-> ("q1" :> 2),
                port |-> ("p1" :> 3)]

\* The target store the agent finds, drifted from the source: g1, q1 and p1
\* stale, g2 missing, g3, q2 and p2 only in the target store.
TargetDrifted == [sg |-> ("g1" :> "1" @@ "g3" :> "1"),
                  qos |-> ("q1" :> "1" @@ "q2" :> "4"),
                  port |-> ("p1" :> "2" @@ "p2" :> "1")]

\* The revision token of a group get_or_create_security_group has just created.
UnsetRev == "0"

\* Every order in which a set may be iterated.
RECURSIVE Orders(_)
Orders(S) == IF S = {} THEN {<<>>}
             ELSE UNION {{<<x>> \o t : t \in Orders(S \ {x})} : x \in S}

\* Timestamp.has_expired(): no marker, or older than the schedule.
HasExpired(age) == age = NoMarker \/ age >= SyncFullSchedule

\* runner.passive(): the work units queued and not yet started.
Passive(q) == Len(q)

\* runner.active(): the work units executing.
Active(r) == Cardinality(r)

\* The gate that never skips.
BacklogBlocksNever(q) == FALSE

\* Line 225: if self.runner.passive() > 0: return.
BacklogBlocks(q) == Passive(q) > 0

\* The gate that runs the full pass whenever the backlog is empty.
GateChoiceAlwaysFull(q, age) ==
    IF BacklogBlocks(q) THEN "skipped" ELSE "full"

\* The gate without the expiry test: never the full pass.
GateChoiceNeverFull(q, age) ==
    IF BacklogBlocks(q) THEN "skipped" ELSE "shallow"

\* Lines 225-240: what an invocation of sync_inventory does, given the
\* backlog and the marker's age.
GateChoice(q, age) ==
    IF BacklogBlocks(q) THEN "skipped"
    ELSE IF HasExpired(age) THEN "full" ELSE "shallow"

\* runner.run(priority, items, handler) for invocation n: one work unit per
\* item, queued in the order of the items.
RunnerRun(q, n, batch) ==
    q \o [i \in 1..Len(batch.items) |->
            [pass |-> n, prio |-> batch.prio, handler |-> batch.handler,
             key |-> batch.items[i]]]

RECURSIVE Submit(_, _, _)
Submit(q, n, batches) ==
    IF batches = <<>> THEN q
    ELSE Submit(RunnerRun(q, n, Head(batches)), n, Tail(batches))

\* The shallow pass's security-group batches with rule updates ahead of the
\* membership updates.
ShallowSgBatchesRulesFirst(outdated_ips, orphaned_ips) ==
    << [prio |-> HIGHER, handler |-> "security_group_updated",
        items |-> outdated_ips],
       [prio |-> MEDIUM, handler |-> "security_group_member_updated",
        items |-> outdated_ips],
       [prio |-> HIGH, handler |-> "security_group_rule_updated",
        items |-> outdated_ips],
       [prio |-> LOW, handler |-> "sync_security_group_orphaned",
        items |-> orphaned_ips] >>

\* The shallow pass's security-group batches with the orphans most urgent.
ShallowSgBatchesOrphansFirst(outdated_ips, orphaned_ips) ==
    << [prio |-> HIGHER, handler |-> "security_group_updated",
        items |-> outdated_ips],
       [prio |-> HIGH, handler |-> "security_group_member_updated",
        items |-> outdated_ips],
       [prio |-> MEDIUM, handler |-> "security_group_rule_updated",
        items |-> outdated_ips],
       [prio |-> HIGHEST, handler |-> "sync_security_group_orphaned",
        items |-> orphaned_ips] >>

\* Lines 183-196: the four runner.run calls for security groups.
ShallowSgBatches(outdated_ips, orphaned_ips) ==
    << [prio |-> HIGHER, handler |-> "security_group_updated",
        items |-> outdated_ips],
       [prio |-> HIGH, handler |-> "security_group_member_updated",
        items |-> outdated_ips],
       [prio |-> MEDIUM, handler |-> "security_group_rule_updated",
        items |-> outdated_ips],
       [prio |-> LOW, handler |-> "sync_security_group_orphaned",
        items |-> orphaned_ips] >>

\* Lines 201-203: the one runner.run call for QoS policies; orphaned_qos is
\* computed and reported, and no work is submitted for it.
ShallowQosBatches(outdated_qos, orphaned_qos) ==
    << [prio |-> LOWER, handler |-> "sync_qos", items |-> outdated_qos] >>

\* Lines 208-213: the two runner.run calls for ports.
ShallowPortBatches(outdated_lps, orphaned_lps) ==
    << [prio |-> LOW, handler |-> "sync_port", items |-> outdated_lps],
       [prio |-> LOW, handler |-> "sync_port_orphaned",
        items |-> orphaned_lps] >>

ShallowBatches(kind, outdated, orphaned) ==
    CASE kind = "sg" -> ShallowSgBatches(outdated, orphaned)
      [] kind = "qos" -> ShallowQosBatches(outdated, orphaned)
      [] kind = "port" -> ShallowPortBatches(outdated, orphaned)

\* The full pass submitting at the shallow pass's priorities.
FullBatchesShallowPriorities(kind, keys) ==
    CASE kind = "sg" -> << [prio |-> HIGHER, handler |-> "sync_security_group",
                            items |-> keys] >>
      [] kind = "qos" -> << [prio |-> LOWER, handler |-> "sync_qos",
                             items |-> keys] >>
      [] kind = "port" -> << [prio |-> LOW, handler |-> "sync_port",
                              items |-> keys] >>

\* Lines 162-173: the full pass's runner.run call of a kind, for the keys of
\* the source store.
FullBatches(kind, keys) ==
    CASE kind = "sg" -> << [prio |-> HIGHER, handler |-> "sync_security_group",
                            items |-> keys] >>
      [] kind = "qos" -> << [prio |-> HIGH, handler |-> "sync_qos",
                             items |-> keys] >>
      [] kind = "port" -> << [prio |-> MEDIUM, handler |-> "sync_port",
                              items |-> keys] >>

\* sync_inventory that writes the marker after the first batch of a full pass.
PcAfterMarkerEarly(pc) ==
    CASE pc = "full_sg" -> "full_ts"
      [] pc = "full_qos" -> "full_port"
      [] pc = "full_port" -> "full_ts"
      [] pc = "shallow_sg" -> "shallow_qos"
      [] pc = "shallow_qos" -> "shallow_port"
      [] pc = "shallow_port" -> "shallow_report"
      [] OTHER -> "idle"

\* The order of the steps of sync_inventory: lines 162-173 then 237 for a
\* full pass, lines 181-217 for a shallow pass.
PcAfter(pc) ==
    CASE pc = "full_sg" -> "full_qos"
      [] pc = "full_qos" -> "full_port"
      [] pc = "full_port" -> "full_ts"
      [] pc = "shallow_sg" -> "shallow_qos"
      [] pc = "shallow_qos" -> "shallow_port"
      [] pc = "shallow_port" -> "shallow_report"
      [] OTHER -> "idle"

\* The kind a step of sync_inventory works on.
PcKind(pc) ==
    CASE pc \in {"full_sg", "shallow_sg"} -> "sg"
      [] pc \in {"full_qos", "shallow_qos"} -> "qos"
      [] OTHER -> "port"

\* ---- the handlers' effect on the target store ---------------------------
SgHandlers == {"security_group_updated", "security_group_member_updated",
               "security_group_rule_updated", "sync_security_group"}
OrphanHandlers == {"sync_security_group_orphaned", "sync_port_orphaned"}

HandlerKind(h) ==
    CASE h \in SgHandlers \cup {"sync_security_group_orphaned"} -> "sg"
      [] h = "sync_qos" -> "qos"
      [] OTHER -> "port"

\* nsxv3.get_or_create_security_group(sg_id).
EnsureGroup(t, k) ==
    IF k \in DOMAIN t.sg THEN t
    ELSE [t EXCEPT !.sg = (k :> UnsetRev) @@ t.sg]

\* A target-store update that records the revision number it is given.
SetRev(t, kind, k, revision) ==
    [t EXCEPT ![kind] = (k :> ToString(revision)) @@ t[kind]]

\* A target-store delete.
Remove(t, kind, k) == [t EXCEPT ![kind] = MapRemove(t[kind], k)]

\* The target store after a handler ran to completion:
\*   security_group_updated, security_group_member_updated (lines 69-91)
\*     create the group when missing and update capabilities or members;
\*   security_group_rule_updated (lines 93-141) submits the rules with the
\*     revision number read from the source store;
\*   sync_security_group (lines 348-353) runs the three in sequence;
\*   sync_qos (lines 306-336), sync_port (lines 261-299) write the object
\*     with its source revision number;
\*   the orphaned handlers (lines 301-304, 355-358) delete the object.
HandlerEffect(u, t) ==
    CASE u.handler \in {"security_group_updated",
                        "security_group_member_updated"} ->
            EnsureGroup(t, u.key)
      [] u.handler \in {"security_group_rule_updated",
                        "sync_security_group"} ->
            SetRev(EnsureGroup(t, u.key), "sg", u.key, SourceStore.sg[u.key])
      [] u.handler = "sync_qos" ->
            SetRev(t, "qos", u.key, SourceStore.qos[u.key])
      [] u.handler = "sync_port" ->
            SetRev(t, "port", u.key, SourceStore.port[u.key])
      [] u.handler = "sync_security_group_orphaned" ->
            Remove(t, "sg", u.key)
      [] u.handler = "sync_port_orphaned" ->
            Remove(t, "port", u.key)

\* The target stores a handler that raised may leave: nothing changed, or,
\* for a security-group handler, the group created before the failing call.
RaisedEffects(u, t) ==
    {t} \cup (IF u.handler \in SgHandlers THEN {EnsureGroup(t, u.key)} ELSE {})

\* ---- the Runner ----------------------------------------------------------
\* The unit a free worker takes: of the most urgent priority queued, the one
\* submitted first.
NextIndex(q) ==
    CHOOSE i \in DOMAIN q :
        /\ \A j \in DOMAIN q : q[j].prio <= q[i].prio
        /\ \A j \in 1..(i - 1) : q[j].prio < q[i].prio

RemoveAt(q, i) == SubSeq(q, 1, i - 1) \o SubSeq(q, i + 1, Len(q))

QueuedUnits == RangeOf(queue)
Unfinished == QueuedUnits \cup running

\* ---- Spec -----------------------------------------------------------------
Init == /\ DiffIdle
        /\ RulesIdle
        /\ AuxIdle
        /\ target = TargetDrifted
        /\ ts_age \in {NoMarker, 0}
        /\ queue = <<>>
        /\ running = {}
        /\ raised = 0
        /\ failed = FALSE
        /\ sync_pc = "idle"
        /\ sync_n = 0
        /\ sync_pass = "none"
        /\ sync_batches = <<>>
        /\ sync_report = EmptyMap
        /\ sync_after = FALSE
        /\ ts_written_by = 0

\* sync_inventory, lines 222-240, up to the choice of the pass: under the
\* global lock, return when the backlog is not empty, else read the marker
\* and start the full or the shallow pass.
SyncStart ==
    /\ sync_pc = "idle"
    /\ sync_n < MaxSyncs
    /\ sync_n' = sync_n + 1
    /\ sync_batches' = <<>>
    /\ sync_report' = EmptyMap
    /\ LET choice == GateChoice(queue, ts_age)
       IN /\ sync_pass' = choice
          /\ sync_pc' = CASE choice = "skipped" -> "idle"
                          [] choice = "full" -> "full_sg"
                          [] choice = "shallow" -> "shallow_sg"
          /\ sync_after' = /\ choice = "shallow"
                           /\ sync_pass = "shallow"
                           /\ ~failed
                           /\ running = {}
    /\ failed' = FALSE
    /\ UNCHANGED <<storeVars, queue, running, raised, ts_written_by,
                   diffVars, ruleVars, auxVars>>

\* One kind of the shallow pass: the diff, then its runner.run calls.
ShallowStep(kind) ==
    LET d == SyncGetContent(GetRevisions(SourceStore[kind]), target[kind])
    IN \E outdated \in Orders(d.outdated), orphaned \in Orders(d.orphaned) :
          LET batches == ShallowBatches(kind, outdated, orphaned)
          IN /\ queue' = Submit(queue, sync_n, batches)
             /\ sync_batches' = sync_batches \o batches
             /\ sync_report' = (kind :> d) @@ sync_report
             /\ sync_pc' = PcAfter(sync_pc)
             /\ UNCHANGED <<storeVars, running, raised, failed, sync_n,
                            sync_pass, sync_after, ts_written_by,
                            diffVars, ruleVars, auxVars>>

ShallowSg == sync_pc = "shallow_sg" /\ ShallowStep("sg")
ShallowQos == sync_pc = "shallow_qos" /\ ShallowStep("qos")
ShallowPort == sync_pc = "shallow_port" /\ ShallowStep("port")

\* One kind of the full pass: every key of the source store is submitted.
FullStep(kind) ==
    \E keys \in Orders(DOMAIN GetRevisions(SourceStore[kind])) :
        LET batches == FullBatches(kind, keys)
        IN /\ queue' = Submit(queue, sync_n, batches)
           /\ sync_batches' = sync_batches \o batches
           /\ sync_pc' = PcAfter(sync_pc)
           /\ UNCHANGED <<storeVars, running, raised, failed, sync_n,
                          sync_pass, sync_report, sync_after, ts_written_by,
                          diffVars, ruleVars, auxVars>>

FullSg == sync_pc = "full_sg" /\ FullStep("sg")
FullQos == sync_pc = "full_qos" /\ FullStep("qos")
FullPort == sync_pc = "full_port" /\ FullStep("port")

\* Lines 215-217: the three reports, then sync_inventory returns.
ShallowReport ==
    /\ sync_pc = "shallow_report"
    /\ sync_pc' = "idle"
    /\ sync_batches' = <<>>
    /\ sync_report' = EmptyMap
    /\ sync_after' = FALSE
    /\ UNCHANGED <<storeVars, runnerVars, sync_n, sync_pass, ts_written_by,
                   diffVars, ruleVars, auxVars>>

\* Line 237: timestamp.update(), then sync_inventory returns.
TimestampUpdate ==
    /\ sync_pc = "full_ts"
    /\ ts_age' = 0
    /\ ts_written_by' = sync_n
    /\ sync_pc' = "idle"
    /\ sync_batches' = <<>>
    /\ UNCHANGED <<target, runnerVars, sync_n, sync_pass, sync_report,
                   sync_after, diffVars, ruleVars, auxVars>>

\* A source-store query, a target-store read or the marker write raises: the
\* exception leaves sync_inventory, which releases the global lock.
SyncRaise ==
    /\ sync_pc # "idle"
    /\ sync_pc' = "idle"
    /\ sync_pass' = "raised"
    /\ sync_batches' = <<>>
    /\ sync_report' = EmptyMap
    /\ sync_after' = FALSE
    /\ UNCHANGED <<storeVars, runnerVars, sync_n, ts_written_by,
                   diffVars, ruleVars, auxVars>>

\* Time passes: the marker ages.
Tick ==
    /\ ts_age # NoMarker
    /\ ts_age < SyncFullSchedule
    /\ ts_age' = ts_age + 1
    /\ UNCHANGED <<target, runnerVars, syncVars, diffVars, ruleVars, auxVars>>

\* A free worker takes the next unit of the backlog.
WorkerTake ==
    /\ queue # <<>>
    /\ Active(running) < NumWorkers
    /\ LET i == NextIndex(queue)
       IN /\ running' = running \cup {queue[i]}
          /\ queue' = RemoveAt(queue, i)
    /\ UNCHANGED <<storeVars, raised, failed, syncVars, diffVars, ruleVars, auxVars>>

\* A unit's handler returns.
WorkerDone ==
    \E u \in running :
        /\ running' = running \ {u}
        /\ target' = HandlerEffect(u, target)
        /\ UNCHANGED <<ts_age, queue, raised, failed, syncVars,
                       diffVars, ruleVars, auxVars>>

\* A unit's handler raises; the worker logs it and goes on.
WorkerRaised ==
    \E u \in running :
        /\ raised < MaxRaised
        /\ raised' = raised + 1
        /\ running' = running \ {u}
        /\ target' \in RaisedEffects(u, target)
        /\ failed' = (failed \/ u.pass = sync_n)
        /\ UNCHANGED <<ts_age, queue, syncVars, diffVars, ruleVars, auxVars>>

Next == \/ SyncStart
        \/ ShallowSg
        \/ ShallowQos
        \/ ShallowPort
        \/ ShallowReport
        \/ FullSg
        \/ FullQos
        \/ FullPort
        \/ TimestampUpdate
        \/ SyncRaise
        \/ Tick
        \/ WorkerTake
        \/ WorkerDone
        \/ WorkerRaised

Spec == Init /\ [][Next]_vars

\* C2: a shallow pass that follows a shallow pass whose work units all ran to
\* completion without error (the source store unchanged in between) computes
\* an empty outdated set and an empty orphaned set for every kind.
C2_SecondShallowPassEmpty ==
    sync_after =>
        \A kind \in DOMAIN sync_report :
            /\ sync_report[kind].outdated = {}
            /\ sync_report[kind].orphaned = {}

C4_SkipsWhenSyncInFlight ==
    [][(sync_n' = sync_n + 1 /\ Unfinished # {}) =>
          sync_pass' = "skipped"]_vars

\* C4 amended: an invocation skips exactly when the backlog holds queued
\* units (runner.passive() > 0); it then submits nothing and writes no
\* marker.  Units that are only executing do not make it skip.
C4_SkipsWhenBacklogQueued ==
    [][/\ sync_n' = sync_n + 1 =>
            /\ sync_pass' = "skipped" <=> Passive(queue) > 0
            /\ Passive(queue) > 0 =>
                  /\ sync_pc' = "idle"
                  /\ UNCHANGED <<queue, ts_age, ts_written_by>>
       /\ \A u \in RangeOf(queue') \ RangeOf(queue) :
            u.pass = sync_n /\ sync_pass \in {"full", "shallow"}]_vars

C4_Witness ==
    /\ sync_n >= 2
    /\ sync_pass = "skipped"
    /\ sync_pc = "idle"
    /\ queue # <<>>
    /\ \A u \in Unfinished : u.pass < sync_n

SgFirstHandlers == {"security_group_updated", "security_group_member_updated"}
SgOutdatedHandlers == SgFirstHandlers \cup {"security_group_rule_updated"}

OutdatedOrphanedPairs ==
    {p \in (DOMAIN sync_batches) \X (DOMAIN sync_batches) :
        /\ sync_batches[p[1]].handler \notin OrphanHandlers
        /\ sync_batches[p[2]].handler \in OrphanHandlers
        /\ HandlerKind(sync_batches[p[1]].handler) =
              HandlerKind(sync_batches[p[2]].handler)
        /\ sync_batches[p[1]].items # <<>>
        /\ sync_batches[p[2]].items # <<>>}

\* C6 as claimed: for every kind the orphaned keys are submitted at a
\* strictly lower priority than the kind's outdated keys.
C6_OrphanedStrictlyLower ==
    \A p \in OutdatedOrphanedPairs :
        sync_batches[p[2]].prio < sync_batches[p[1]].prio

\* C6 amended: orphaned keys are submitted after the kind's outdated keys and
\* never at a higher priority: strictly lower for security groups, the same
\* priority (LOW) for ports, and not at all for QoS policies.
C6_OrphanedNotHigher ==
    /\ \A p \in OutdatedOrphanedPairs :
          LET a == sync_batches[p[1]]
              b == sync_batches[p[2]]
          IN /\ p[1] < p[2]
             /\ b.prio <= a.prio
             /\ HandlerKind(a.handler) = "sg" => b.prio < a.prio
             /\ HandlerKind(a.handler) = "port" =>
                   (b.prio = a.prio /\ b.prio = LOW)
    /\ \A i \in DOMAIN sync_batches :
          HandlerKind(sync_batches[i].handler) = "qos" =>
              sync_batches[i].handler = "sync_qos"
    /\ \A kind \in DOMAIN sync_report \cap {"sg", "port"} :
          sync_report[kind].orphaned # {} =>
              \E i \in DOMAIN sync_batches :
                  /\ sync_batches[i].handler \in OrphanHandlers
                  /\ HandlerKind(sync_batches[i].handler) = kind
                  /\ RangeOf(sync_batches[i].items) = sync_report[kind].orphaned

C6_Witness ==
    /\ sync_pc = "shallow_report"
    /\ DOMAIN sync_report = Kinds
    /\ sync_report.qos.orphaned # {}
    /\ \E p \in OutdatedOrphanedPairs :
          HandlerKind(sync_batches[p[1]].handler) = "sg"
    /\ \E p \in OutdatedOrphanedPairs :
          /\ HandlerKind(sync_batches[p[1]].handler) = "port"
          /\ sync_batches[p[1]].prio = sync_batches[p[2]].prio

(***************************************************************************)
(* SpecPage: the paging loop of get_revisions (lines 360-371)              *)
(***************************************************************************)
PageKeys == {"a", "b", "c"}
MaxCreated == 2
MaxLimit == 3
MaxRevision == 2
MaxPages == 4

\* datetime.datetime(1970, 1, 1): earlier than every creation time.
Epoch == 0

\* The records a query may still return: created after the watermark.
Eligible(table, created_after) ==
    {k \in DOMAIN table : table[k].created > created_after}

\* query(limit=limit, created_after=created_after): the first `limit'
\* records created after the watermark, ascending by creation time, as
\* (key, revision, created) tuples.  Records that share a creation time come
\* in any order, which may differ from one query to the next.
Query(table, limit, created_after) ==
    LET E == Eligible(table, created_after)
        n == IF Cardinality(E) < limit THEN Cardinality(E) ELSE limit
        ascending(s) ==
            /\ \A i \in 1..(Len(s) - 1) :
                  table[s[i]].created <= table[s[i + 1]].created
            /\ \A k \in E \ RangeOf(s) : \A i \in DOMAIN s :
                  table[s[i]].created <= table[k].created
    IN {[i \in DOMAIN s |-> <<s[i], table[s[i]].rev, table[s[i]].created>>] :
          s \in {o \in UNION {Orders(S) :
                              S \in {T \in SUBSET E : Cardinality(T) = n}} :
                    ascending(o)}}

\* The loop that never moves its watermark.
NextWatermarkStuck(pr_tuples, created_after) == created_after

\* Line 370: created_after = pr_tuples.pop()[2].
NextWatermark(pr_tuples, created_after) == pr_tuples[Len(pr_tuples)][3]

\* Lines 366-367: for port, revision, _ in pr_tuples: rev[port] = str(revision).
StoreRevisions(rev, pr_tuples) ==
    LET seen == {pr_tuples[i][1] : i \in DOMAIN pr_tuples}
        last(k) == CHOOSE i \in DOMAIN pr_tuples :
                      /\ pr_tuples[i][1] = k
                      /\ \A j \in DOMAIN pr_tuples :
                            pr_tuples[j][1] = k => j <= i
    IN [k \in DOMAIN rev \cup seen |->
          IF k \in seen THEN ToString(pr_tuples[last(k)][2]) ELSE rev[k]]

PageTables ==
    UNION {[S -> [rev : {1}, created : 1..MaxCreated]] : S \in SUBSET PageKeys}

PageInit == /\ DiffIdle
            /\ RulesIdle
            /\ EngineIdle
            /\ LocksIdle
            /\ NotifyIdle
            /\ DevicesIdle
            /\ page_table \in PageTables
            /\ page_limit \in 1..MaxLimit
            /\ page_pc = "idle"
            /\ page_after = Epoch
            /\ page_rev = EmptyMap
            /\ page_start = {}
            /\ page_count = 0

offPage == <<diffVars, ruleVars, engineVars, lockVars, notifyVars, devVars>>

\* Lines 361-363: get_revisions is called.
GetRevisionsCall ==
    /\ page_pc = "idle"
    /\ page_pc' = "loop"
    /\ page_rev' = EmptyMap
    /\ page_after' = Epoch
    /\ page_start' = DOMAIN page_table
    /\ page_count' = 0
    /\ UNCHANGED <<page_table, page_limit, offPage>>

\* Lines 365-370: one turn of the loop.
GetRevisionsPage ==
    /\ page_pc = "loop"
    /\ \E pr_tuples \in Query(page_table, page_limit, page_after) :
          /\ page_rev' = StoreRevisions(page_rev, pr_tuples)
          /\ IF Len(pr_tuples) < page_limit
             THEN /\ page_pc' = "done"
                  /\ page_after' = page_after
             ELSE /\ page_pc' = "loop"
                  /\ page_after' = NextWatermark(pr_tuples, page_after)
    /\ page_count' = (IF page_count < MaxPages THEN page_count + 1
                      ELSE page_count)
    /\ UNCHANGED <<page_table, page_limit, page_start, offPage>>

\* A record is inserted into the source table while the scan runs: its
\* creation time is not earlier than that of any record already there.
SourceInsert ==
    /\ page_pc = "loop"
    /\ \E k \in PageKeys \ DOMAIN page_table, c \in 1..MaxCreated :
          /\ \A j \in DOMAIN page_table : page_table[j].created <= c
          /\ page_table' = (k :> [rev |-> 1, created |-> c]) @@ page_table
    /\ UNCHANGED <<page_limit, page_pc, page_after, page_rev, page_start,
                   page_count, offPage>>

\* A record is updated while the scan runs: its revision number grows.
SourceUpdate ==
    /\ page_pc = "loop"
    /\ \E k \in DOMAIN page_table :
          /\ page_table[k].rev < MaxRevision
          /\ page_table' = [page_table EXCEPT ![k].rev = @ + 1]
    /\ UNCHANGED <<page_limit, page_pc, page_after, page_rev, page_start,
                   page_count, offPage>>

PageNext == \/ GetRevisionsCall
            \/ GetRevisionsPage
            \/ SourceInsert
            \/ SourceUpdate

SpecPage == PageInit /\ [][PageNext]_vars

\* The thread inside get_revisions keeps running its loop.
SpecPageLive == SpecPage /\ WF_vars(GetRevisionsPage)

\* C14: when get_revisions returns, its map holds every key that was in the
\* source table throughout the scan, mapped to the string form of a revision
\* the record had, whatever the page limit, the creation times and the
\* inserts and updates made meanwhile.
C14_FullScan ==
    page_pc = "done" =>
        \A k \in page_start :
            /\ k \in DOMAIN page_rev
            /\ page_rev[k] \in {ToString(r) : r \in 1..page_table[k].rev}

\* C15: every call of get_revisions returns; a turn of the loop ends the
\* call exactly when its page is shorter than the limit, and otherwise
\* moves the watermark forward.
C15_PagingTerminates ==
    /\ [][page_pc = "loop" /\ page_count' # page_count =>
            LET n == Cardinality(Eligible(page_table, page_after))
            IN /\ page_pc' = "done" <=> n < page_limit
               /\ page_pc' = "loop" => page_after' > page_after]_vars
    /\ (page_pc = "loop") ~> (page_pc = "done")

\* A call that read several full pages, moved its watermark and returned.
C15_Witness ==
    /\ page_pc = "done"
    /\ page_count >= 3
    /\ page_after > Epoch
    /\ page_limit < Cardinality(DOMAIN page_table)

(***************************************************************************)
(* The full pass, the gate and the orphans of a shallow pass (Spec)        *)
(***************************************************************************)
FullPcs == {"full_sg", "full_qos", "full_port", "full_ts"}
ShallowPcs == {"shallow_sg", "shallow_qos", "shallow_port", "shallow_report"}

\* The units a step added at the end of the backlog.
Appended(q, qn) == SubSeq(qn, Len(q) + 1, Len(qn))

C19_GateDecision ==
    [][/\ sync_n' = sync_n + 1 =>
            \/ /\ Passive(queue) > 0
               /\ sync_pass' = "skipped"
               /\ sync_pc' = "idle"
               /\ UNCHANGED <<queue, ts_age, ts_written_by>>
            \/ /\ Passive(queue) = 0
               /\ ts_age = NoMarker \/ ts_age >= SyncFullSchedule
               /\ sync_pass' = "full"
               /\ sync_pc' = "full_sg"
            \/ /\ Passive(queue) = 0
               /\ ts_age # NoMarker /\ ts_age < SyncFullSchedule
               /\ sync_pass' = "shallow"
               /\ sync_pc' = "shallow_sg"
       /\ sync_pc' \in FullPcs => sync_pass' = "full"
       /\ sync_pc' \in ShallowPcs => sync_pass' = "shallow"
       /\ Len(queue') > Len(queue) => sync_pass \in {"full", "shallow"}
       /\ (ts_written_by' # ts_written_by \/ ts_age' < ts_age) =>
             /\ sync_pass = "full"
             /\ sync_pc = "full_ts"
       /\ (sync_pc = "full_port" /\ sync_pc' \notin {"idle", "full_port"}) =>
             sync_pc' = "full_ts"
       /\ (sync_pc = "full_ts" /\ sync_pc' = "idle" /\ sync_pass' = "full") =>
             (ts_age' = 0 /\ ts_written_by' = sync_n)]_vars

\* A shallow pass that follows a full pass which wrote the marker.
C19_Witness ==
    /\ sync_n >= 2
    /\ ts_written_by = 1
    /\ ts_age = 0
    /\ sync_pass = "shallow"
    /\ sync_pc = "shallow_report"

\* The removal handler of a kind.
RemovalHandler(kind) ==
    CASE kind = "sg" -> "sync_security_group_orphaned"
      [] kind = "qos" -> "sync_qos_orphaned"
      [] kind = "port" -> "sync_port_orphaned"

\* C20: in a shallow pass the orphaned keys of every kind are submitted to
\* the kind's removal handler.
C20_EveryOrphanSubmitted ==
    \A kind \in DOMAIN sync_report :
        sync_report[kind].orphaned # {} =>
            \E i \in DOMAIN sync_batches :
                /\ sync_batches[i].handler = RemovalHandler(kind)
                /\ RangeOf(sync_batches[i].items) = sync_report[kind].orphaned

(***************************************************************************)
(* SpecNotify: the change notifications (lines 147-159) and the Runner     *)
(***************************************************************************)
MaxNotify == 2
NotifyIds == {"g1", "g2"}

\* kwargs["security_groups"]: a list of ids, or a single id that is no list.
Payloads ==
    {[list |-> FALSE, ids |-> k] : k \in NotifyIds}
      \cup {[list |-> TRUE, ids |-> s] :
              s \in {<<>>} \cup {<<k>> : k \in NotifyIds}
                      \cup {<<j, k>> : j \in NotifyIds, k \in NotifyIds}}

\* The batch that drops a payload which is not a list.
AsBatchListsOnly(o) == IF o.list THEN o.ids ELSE <<>>

\* Lines 151, 158: o if isinstance(o, list) else [o].
AsBatch(o) == IF o.list THEN o.ids ELSE <<o.ids>>

\* Lines 150-152, 157-159: the runner.run call of a notification.
NotificationBatch(method, o) ==
    [prio |-> HIGHEST,
     handler |-> (CASE method = "security_groups_member_updated" ->
                          "security_group_member_updated"
                    [] method = "security_groups_rule_updated" ->
                          "security_group_rule_updated"),
     items |-> AsBatch(o)]

\* A notification arrives: its units join the backlog, tagged with pass 0
\* (they belong to no invocation of sync_inventory).
Notification(method) ==
    /\ \E o \in Payloads :
          /\ queue' = RunnerRun(queue, 0, NotificationBatch(method, o))
          /\ notify_last' = [method |-> method, list |-> o.list, ids |-> o.ids]
    /\ notify_n' = notify_n + 1
    /\ UNCHANGED <<storeVars, running, raised, failed, syncVars,
                   diffVars, ruleVars, pageVars, lockVars, devVars>>

SecurityGroupsMemberUpdated ==
    notify_n < MaxNotify /\ Notification("security_groups_member_updated")

SecurityGroupsRuleUpdated ==
    notify_n < MaxNotify /\ Notification("security_groups_rule_updated")

NotifyNext == \/ SecurityGroupsMemberUpdated
              \/ SecurityGroupsRuleUpdated
              \/ WorkerTake
              \/ WorkerDone
              \/ WorkerRaised

SpecNotify == Init /\ [][NotifyNext]_vars

\* C17: a notification appends to the backlog exactly one work unit per id
\* it names, in the order named, for the handler of its method and at
\* priority HIGHEST; an id that is no list makes one unit; the notification
\* itself executes nothing and leaves the target store alone.
C17_NotificationSubmitsPerId ==
    [][notify_n' = notify_n + 1 =>
          LET o == notify_last'
              named == IF o.list THEN o.ids ELSE <<o.ids>>
              new == Appended(queue, queue')
          IN /\ SubSeq(queue', 1, Len(queue)) = queue
             /\ Len(new) = Len(named)
             /\ ~o.list => Len(new) = 1
             /\ \A i \in DOMAIN new :
                   /\ new[i].key = named[i]
                   /\ new[i].prio = HIGHEST
                   /\ new[i].prio > HIGHER
                   /\ o.method = "security_groups_member_updated" =>
                         new[i].handler = "security_group_member_updated"
                   /\ o.method = "security_groups_rule_updated" =>
                         new[i].handler = "security_group_rule_updated"
             /\ UNCHANGED <<running, target>>]_vars

\* The last notification named a single id that is no list: its unit is the
\* last of the backlog while a unit of an earlier notification executes.
C17_Witness ==
    /\ notify_n = 2
    /\ ~notify_last.list
    /\ running # {}
    /\ queue # <<>>
    /\ queue[Len(queue)].key = notify_last.ids
    /\ queue[Len(queue)].prio = HIGHEST

(***************************************************************************)
(* SpecDevices: NSXv3Manager.get_all_devices (lines 474-498)               *)
(***************************************************************************)
PollingInterval == 2
MaxNow == 10

\* What sync_inventory may raise: a source-store query error, a marker read
\* or write error, a submission error.
SyncErrors == {"QueryError", "TimestampError", "SubmitError"}

\* The handler that catches query errors only.
CaughtQueryErrorsOnly(e) == e = "QueryError"

\* Line 496: except Exception.  Each of SyncErrors derives from Exception.
Caught(e) == e \in SyncErrors

DevInit == /\ DiffIdle
           /\ RulesIdle
           /\ EngineIdle
           /\ PageIdle
           /\ LocksIdle
           /\ NotifyIdle
           /\ dev_rpc = FALSE
           /\ dev_now = PollingInterval + 1
           /\ dev_last_sync_time = 0
           /\ dev_call = NoDevCall

offDevices == <<diffVars, ruleVars, engineVars, pageVars, lockVars,
                notifyVars>>

\* Lines 560-568: get_rpc_callbacks sets self.rpc.
GetRpcCallbacks ==
    /\ ~dev_rpc
    /\ dev_rpc' = TRUE
    /\ UNCHANGED <<dev_now, dev_last_sync_time, dev_call, offDevices>>

\* time.time() advances.
DevClock ==
    /\ dev_now < MaxNow
    /\ dev_now' = dev_now + 1
    /\ UNCHANGED <<dev_rpc, dev_last_sync_time, dev_call, offDevices>>

\* self.last_sync_time = now placed ahead of the sync_inventory call.
LastSyncTimeAfterAttempt(synced, exc, now, last) ==
    IF synced THEN now ELSE last

\* Lines 493-495: self.last_sync_time = now is reached only when the test
\* passed and self.rpc.sync_inventory() returned.
LastSyncTimeAfter(synced, exc, now, last) ==
    IF synced /\ exc = None THEN now ELSE last

\* Lines 486-498: one call of get_all_devices; outcome is what
\* sync_inventory does when it is called.  time.time() is read twice (lines
\* 491 and 492) and may advance between the two readings.
GetAllDevices ==
    /\ \E outcome \in {"returned"} \cup SyncErrors :
       \E second \in {dev_now, dev_now + 1} \cap (0 .. MaxNow) :
          LET now == dev_now
              elapsed == second - dev_last_sync_time
              synced == dev_rpc /\ elapsed > PollingInterval
              exc == IF synced /\ outcome # "returned" THEN outcome
                        ELSE None
              propagated == exc # None /\ ~Caught(exc)
          IN /\ dev_call' = [called |-> TRUE, synced |-> synced,
                             raised |-> exc, propagated |-> propagated,
                             returned |-> ~propagated, result |-> {},
                             now |-> now, elapsed |-> elapsed,
                             last |-> dev_last_sync_time,
                             retry |-> dev_call.raised # None]
             /\ dev_last_sync_time' =
                   LastSyncTimeAfter(synced, exc, now, dev_last_sync_time)
             /\ dev_now' = second
    /\ UNCHANGED <<dev_rpc, offDevices>>

DevNext == \/ GetRpcCallbacks
           \/ DevClock
           \/ GetAllDevices

SpecDevices == DevInit /\ [][DevNext]_vars

\* C18: whatever sync_inventory raises, get_all_devices does not propagate
\* it and returns the empty set.
C18_NeverPropagates ==
    dev_call.called =>
        /\ ~dev_call.propagated
        /\ dev_call.returned
        /\ dev_call.result = {}

\* sync_inventory raised inside get_all_devices, which returned.
C18_Witness ==
    /\ dev_call.called
    /\ dev_call.synced
    /\ dev_call.raised = "TimestampError"
    /\ dev_call.returned

(***************************************************************************)
(* SpecLocks: the handlers and sync_inventory as threads that take the     *)
(* LockManager's locks.  An operation is the list of its steps: acquire    *)
(* and release (a `with LockManager.get_lock(key)' block), mutate (a       *)
(* mutating target-store call on object key), call (any other call that    *)
(* may raise: a source-store query, a target-store read, the marker,       *)
(* runner.run) and return_if (a conditional early return).                 *)
(***************************************************************************)
Threads == {"worker1", "worker2", "trigger"}
LockIds == {"g1", "q1", "p1"}
AGENT_SYNCHRONIZATION_LOCK == "AGENT_SYNCHRONIZATION_LOCK"
LockKeys == LockIds \cup {AGENT_SYNCHRONIZATION_LOCK}

AcquireOp(k) == [op |-> "acquire", key |-> k, call |-> None, handler |-> 0]
ReleaseOp(k) == [op |-> "release", key |-> k, call |-> None, handler |-> 0]
MutateOp(k, c) == [op |-> "mutate", key |-> k, call |-> c, handler |-> 0]
CallOp(c) == [op |-> "call", key |-> None, call |-> c, handler |-> 0]
ReturnIfOp(c) == [op |-> "return_if", key |-> None, call |-> c, handler |-> 0]

\* A step inside a try block: when it raises, the operation goes on at
\* step i (the statement after the try).
CaughtAt(o, i) == [o EXCEPT !.handler = i]

\* Lines 69-78.
SecurityGroupUpdatedOps(k) ==
    << AcquireOp(k),
       MutateOp(k, "get_or_create_security_group"),
       CallOp("rpc.has_security_group_tag"),
       MutateOp(k, "update_security_group_capabilities"),
       ReleaseOp(k) >>

\* Lines 80-91.
SecurityGroupMemberUpdatedOps(k) ==
    << AcquireOp(k),
       MutateOp(k, "get_or_create_security_group"),
       CallOp("rpc.get_security_group_members_ips"),
       CallOp("rpc.get_security_group_members_address_bindings_ips"),
       MutateOp(k, "update_security_group_members"),
       ReleaseOp(k) >>

\* Lines 93-141.
SecurityGroupRuleUpdatedOps(k) ==
    << AcquireOp(k),
       MutateOp(k, "get_or_create_security_group"),
       CallOp("nsxv3.get_revisions(IPSet)"),
       CallOp("nsxv3.get_revisions(FirewallRule)"),
       CallOp("rpc.get_rules_for_security_groups_id"),
       CallOp("nsxv3.get_security_group_rule_spec"),
       CallOp("rpc.get_security_group_revision"),
       MutateOp(k, "update_security_group_rules"),
       ReleaseOp(k) >>

\* Lines 143-145, and sync_security_group_orphaned (lines 355-358).
SecurityGroupDeleteOps(k) ==
    << AcquireOp(k), MutateOp(k, "delete_security_group"), ReleaseOp(k) >>

\* Lines 348-353: the three handlers one after the other.
SyncSecurityGroupOps(k) ==
    SecurityGroupUpdatedOps(k) \o SecurityGroupMemberUpdatedOps(k)
        \o SecurityGroupRuleUpdatedOps(k)

\* Lines 394-428: port_update returns early for a port of another type or
\* host, else updates the port under its lock.
PortUpdateOps(k) ==
    << ReturnIfOp("port not handled by this agent"),
       AcquireOp(k), MutateOp(k, "port_update"), ReleaseOp(k) >>

\* Lines 261-299.
SyncPortOps(k) ==
    << CallOp("rpc.get_port"),
       CallOp("rpc.get_port_addresses"),
       CallOp("rpc.get_port_allowed_pairs"),
       CallOp("rpc.get_port_security_groups") >> \o PortUpdateOps(k)

\* Lines 301-304 and 430-434, with sync=True.
SyncPortOrphanedOps(k) ==
    << AcquireOp(k), MutateOp(k, "port_delete"), ReleaseOp(k) >>

\* sync_qos with create_policy outside any try: its exception ends the handler.
SyncQosOpsCreateFatal(k) ==
    << CallOp("rpc.get_qos"),
       CallOp("rpc.get_qos_bwl_rules"),
       CallOp("rpc.get_qos_dscp_rules"),
       AcquireOp(k),
       MutateOp(k, "create_switch_profile_qos"),
       ReleaseOp(k),
       AcquireOp(k),
       MutateOp(k, "update_switch_profile_qos"),
       ReleaseOp(k) >>

\* Lines 306-336: create_policy inside try/except, then update_policy.
SyncQosOps(k) ==
    << CallOp("rpc.get_qos"),
       CallOp("rpc.get_qos_bwl_rules"),
       CallOp("rpc.get_qos_dscp_rules"),
       AcquireOp(k),
       CaughtAt(MutateOp(k, "create_switch_profile_qos"), 7),
       ReleaseOp(k),
       AcquireOp(k),
       MutateOp(k, "update_switch_profile_qos"),
       ReleaseOp(k) >>

\* Lines 340-346 and 450-454: delete_policy takes the lock and does nothing.
SyncQosOrphanedOps(k) == << AcquireOp(k), ReleaseOp(k) >>

\* runner.run that executes a handler on the calling thread.
RunOpsInline == SecurityGroupDeleteOps("g1")

\* runner.run(priority, items, handler): queues the units and returns; the
\* handlers run on the Runner's workers.
RunOps == << CallOp("runner.run") >>

\* Lines 161-173.
SyncInventoryFullOps ==
    << CallOp("get_revisions(security groups)") >> \o RunOps
        \o << CallOp("get_revisions(qos policies)") >> \o RunOps
        \o << CallOp("get_revisions(ports)") >> \o RunOps

\* Lines 175-213.
SyncInventoryShallowOps ==
    << CallOp("get_revisions(security groups)"),
       CallOp("nsxv3.get_revisions(IPSet)") >>
        \o RunOps \o RunOps \o RunOps \o RunOps
        \o << CallOp("get_revisions(qos policies)"),
              CallOp("nsxv3.get_revisions(QosSwitchingProfile)") >>
        \o RunOps
        \o << CallOp("get_revisions(ports)"),
              CallOp("nsxv3.get_revisions(LogicalPort)") >>
        \o RunOps \o RunOps

\* Lines 219-240.
SyncInventoryOps(pass) ==
    << AcquireOp(AGENT_SYNCHRONIZATION_LOCK),
       ReturnIfOp("runner.passive() > 0"),
       CallOp("timestamp.has_expired") >>
        \o (IF pass = "full"
            THEN SyncInventoryFullOps \o << CallOp("timestamp.update") >>
            ELSE SyncInventoryShallowOps)
        \o << ReleaseOp(AGENT_SYNCHRONIZATION_LOCK) >>

\* The operations a thread may run: sync_inventory on the trigger thread,
\* the handlers on the others (Runner workers, or direct callers).
OperationsOf(t) ==
    IF t = "trigger"
    THEN {[key |-> AGENT_SYNCHRONIZATION_LOCK, ops |-> SyncInventoryOps(p)] :
             p \in {"full", "shallow"}}
    ELSE {[key |-> "g1", ops |-> SecurityGroupUpdatedOps("g1")],
          [key |-> "g1", ops |-> SecurityGroupMemberUpdatedOps("g1")],
          [key |-> "g1", ops |-> SecurityGroupRuleUpdatedOps("g1")],
          [key |-> "g1", ops |-> SecurityGroupDeleteOps("g1")],
          [key |-> "g1", ops |-> SyncSecurityGroupOps("g1")],
          [key |-> "p1", ops |-> SyncPortOps("p1")],
          [key |-> "p1", ops |-> SyncPortOrphanedOps("p1")],
          [key |-> "q1", ops |-> SyncQosOps("q1")],
          [key |-> "q1", ops |-> SyncQosOrphanedOps("q1")]}

\* A lock that anyone may take at any time.
LockFreeAlways(holders, k) == TRUE

\* LockManager.get_lock(key): the lock is taken by one holder at a time.
LockFree(holders, k) == holders[k] = {}

\* A with block that keeps its lock when it is left by an exception or an
\* early return.
ReleaseOnExitLeaks(holders, t) == holders

\* Leaving the with blocks by an exception or an early return releases the
\* locks thread t took in them.
ReleaseOnExit(holders, t) == [k \in DOMAIN holders |-> holders[k] \ {t}]

\* str(e) of what create_policy may raise, as the words of the message.
ExceptionMessages ==
    { <<"Object", "exists">>,
      <<"Conflict:", "Object", "exists", "on", "backend">>,
      <<"Object", "not", "found">>,
      <<>> }

\* sub in msg.
Contains(sub, msg) ==
    \E i \in 1 .. (Len(msg) - Len(sub) + 1) :
        SubSeq(msg, i, i + Len(sub) - 1) = sub

\* Lines 333-334: if "Object exists" not in str(e): LOG.error(...).
LogsUnableToCreate(message) == ~Contains(<<"Object", "exists">>, message)

Busy(t) == th_pc[t] > 0
CurrentOp(t) == th_prog[t][th_pc[t]]
HeldBy(t) == {k \in DOMAIN lk_holders : t \in lk_holders[k]}
Waiting(t) == /\ Busy(t)
              /\ CurrentOp(t).op = "acquire"
              /\ ~LockFree(lk_holders, CurrentOp(t).key)
Mutating(t, k) == /\ Busy(t)
                  /\ CurrentOp(t).op = "mutate"
                  /\ CurrentOp(t).key = k

LocksInit == /\ DiffIdle
             /\ RulesIdle
             /\ EngineIdle
             /\ PageIdle
             /\ NotifyIdle
             /\ DevicesIdle
             /\ lk_holders = [k \in LockKeys |-> {}]
             /\ th_prog = [t \in Threads |-> <<>>]
             /\ th_pc = [t \in Threads |-> 0]
             /\ th_last = [t \in Threads |-> [outcome |-> "none", key |-> None]]

offLocks == <<diffVars, ruleVars, engineVars, pageVars, notifyVars, devVars>>

\* Thread t ends its operation.
Ends(t, outcome) ==
    /\ th_pc' = [th_pc EXCEPT ![t] = 0]
    /\ th_prog' = [th_prog EXCEPT ![t] = <<>>]
    /\ th_last' = [th_last EXCEPT ![t] = [outcome |-> outcome, key |-> @.key]]

\* Thread t goes on to its next step, or returns after the last one.
Proceeds(t) ==
    IF th_pc[t] = Len(th_prog[t]) THEN Ends(t, "returned")
    ELSE /\ th_pc' = [th_pc EXCEPT ![t] = @ + 1]
         /\ UNCHANGED <<th_prog, th_last>>

ThreadBegins ==
    \E t \in Threads : \E o \in OperationsOf(t) :
        /\ ~Busy(t)
        /\ th_prog' = [th_prog EXCEPT ![t] = o.ops]
        /\ th_pc' = [th_pc EXCEPT ![t] = 1]
        /\ th_last' = [th_last EXCEPT ![t] = [outcome |-> "running",
                                              key |-> o.key]]
        /\ UNCHANGED <<lk_holders, offLocks>>

\* with LockManager.get_lock(key): entered once the lock is free.
ThreadAcquires ==
    \E t \in Threads :
        /\ Busy(t)
        /\ CurrentOp(t).op = "acquire"
        /\ LockFree(lk_holders, CurrentOp(t).key)
        /\ lk_holders' = [lk_holders EXCEPT ![CurrentOp(t).key] = @ \cup {t}]
        /\ Proceeds(t)
        /\ UNCHANGED offLocks

\* The end of a with block.
ThreadReleases ==
    \E t \in Threads :
        /\ Busy(t)
        /\ CurrentOp(t).op = "release"
        /\ lk_holders' = [lk_holders EXCEPT ![CurrentOp(t).key] = @ \ {t}]
        /\ Proceeds(t)
        /\ UNCHANGED offLocks

\* A call returns (or a conditional return is not taken).
ThreadCalls ==
    \E t \in Threads :
        /\ Busy(t)
        /\ CurrentOp(t).op \in {"mutate", "call", "return_if"}
        /\ Proceeds(t)
        /\ UNCHANGED <<lk_holders, offLocks>>

\* A call raises: the with blocks are left; the exception is caught by the
\* enclosing try of the operation, or ends the operation.
ThreadRaises ==
    \E t \in Threads :
        /\ Busy(t)
        /\ CurrentOp(t).op \in {"mutate", "call"}
        /\ lk_holders' = ReleaseOnExit(lk_holders, t)
        /\ IF CurrentOp(t).handler = 0 THEN Ends(t, "raised")
           ELSE \E message \in ExceptionMessages :
                /\ th_pc' = [th_pc EXCEPT ![t] = CurrentOp(t).handler]
                /\ th_last' = [th_last EXCEPT ![t] =
                                  [outcome |-> "caught", key |-> @.key,
                                   message |-> message,
                                   logged |-> LogsUnableToCreate(message)]]
                /\ UNCHANGED th_prog
        /\ UNCHANGED offLocks

\* A conditional return is taken.
ThreadReturnsEarly ==
    \E t \in Threads :
        /\ Busy(t)
        /\ CurrentOp(t).op = "return_if"
        /\ lk_holders' = ReleaseOnExit(lk_holders, t)
        /\ Ends(t, "returned_early")
        /\ UNCHANGED offLocks

LocksNext == \/ ThreadBegins
             \/ ThreadAcquires
             \/ ThreadReleases
             \/ ThreadCalls
             \/ ThreadRaises
             \/ ThreadReturnsEarly

SpecLocks == LocksInit /\ [][LocksNext]_vars

C12_OneLockPerThread ==
    /\ \A t \in Threads :
          /\ Cardinality(HeldBy(t)) <= 1
          /\ Waiting(t) => HeldBy(t) = {}
          /\ (Busy(t) /\ CurrentOp(t).op = "acquire") => HeldBy(t) = {}
    /\ ~\E t1, t2 \in Threads :
          /\ t1 # t2
          /\ Waiting(t1) /\ CurrentOp(t1).key \in HeldBy(t2)
          /\ Waiting(t2) /\ CurrentOp(t2).key \in HeldBy(t1)

\* sync_inventory holds the global lock while a handler waits for the lock
\* another handler holds.
C12_Witness ==
    /\ HeldBy("trigger") = {AGENT_SYNCHRONIZATION_LOCK}
    /\ \E t1, t2 \in Threads \ {"trigger"} :
          /\ Waiting(t1)
          /\ CurrentOp(t1).key \in HeldBy(t2)

\* The locks of the with blocks thread t is inside, read off its steps.
InScope(t) ==
    IF ~Busy(t) THEN {}
    ELSE {k \in LockKeys :
            \E i \in 1..(th_pc[t] - 1) :
                /\ th_prog[t][i] = AcquireOp(k)
                /\ \A j \in (i + 1)..(th_pc[t] - 1) :
                      th_prog[t][j] # ReleaseOp(k)}

\* C13: a thread holds exactly the locks of the with blocks it is inside;
\* once its operation has ended, by returning, by an early return or by an
\* exception, it holds none.
C13_ReleasedOnEveryExit ==
    \A t \in Threads :
        /\ HeldBy(t) = InScope(t)
        /\ ~Busy(t) => HeldBy(t) = {}

\* sync_inventory returned early and the global lock is free; a handler on
\* g1 ended by an exception and another thread holds the lock of g1.
C13_Witness ==
    /\ ~Busy("trigger")
    /\ th_last["trigger"].outcome = "returned_early"
    /\ lk_holders[AGENT_SYNCHRONIZATION_LOCK] = {}
    /\ ~Busy("worker1")
    /\ th_last["worker1"] = [outcome |-> "raised", key |-> "g1"]
    /\ lk_holders["g1"] = {"worker2"}

(***************************************************************************)
(* The revision diff's two sets (SpecDiff)                                 *)
(***************************************************************************)
\* C25: the outdated and the orphaned set of one revision diff have no key
\* in common, whatever the source and target maps.
C25_OutdatedOrphanedDisjoint ==
    diff_out.called =>
        diff_out.result.outdated \cap diff_out.result.orphaned = {}

\* A diff with both sets non-empty, over maps that share a key.
C25_Witness ==
    /\ diff_out.called
    /\ diff_out.result.outdated # {}
    /\ diff_out.result.orphaned # {}
    /\ DOMAIN diff_src \cap DOMAIN diff_tgt # {}

(***************************************************************************)
(* The polling gate of get_all_devices (SpecDevices)                       *)
(***************************************************************************)
\* C23: get_all_devices calls sync_inventory only when more than
\* polling_interval has elapsed since last_sync_time; last_sync_time moves,
\* to the time read before the call, only when sync_inventory returned; after
\* a raise it is what it was, and the following call attempts the sync again.
C23_PollingGate ==
    dev_call.called =>
        /\ dev_call.synced => dev_call.elapsed > PollingInterval
        /\ dev_call.synced => (dev_rpc /\ dev_now - dev_call.last > PollingInterval)
        /\ (dev_call.synced /\ dev_call.raised = None)
              => dev_last_sync_time = dev_call.now
        /\ ~(dev_call.synced /\ dev_call.raised = None)
              => dev_last_sync_time = dev_call.last
        /\ dev_call.retry => dev_call.synced

\* A call that follows a failed attempt and attempts the sync again, with
\* last_sync_time where the failed attempt found it.
C23_Witness ==
    /\ dev_call.called
    /\ dev_call.retry
    /\ dev_call.synced
    /\ dev_call.raised = None
    /\ dev_last_sync_time = dev_call.now
    /\ dev_call.last = 0
    /\ dev_call.now > PollingInterval + 1

(***************************************************************************)
(* sync_qos: create, then update (SpecLocks)                               *)
(***************************************************************************)
\* C24: in sync_qos, no outcome of create_policy ends the handler: it goes
\* on to update_policy whether create_policy returned or raised, and what
\* create_policy raised is logged exactly when its message lacks "Object
\* exists"; an exception from update_policy ends the handler as raised; the
\* lock of the policy is not held between the two steps.
C24_CreateThenUpdate ==
    [][\A t \in Threads :
          th_prog[t] = SyncQosOps("q1") =>
             /\ (th_pc[t] = 5 /\ th_pc'[t] # 5) =>
                   /\ th_pc'[t] \in {6, 7}
                   /\ th_prog'[t] = th_prog[t]
                   /\ th_pc'[t] = 6 => th_last'[t].outcome = "running"
                   /\ th_pc'[t] = 7 =>
                         /\ th_last'[t].outcome = "caught"
                         /\ th_last'[t].logged =
                               (th_last'[t].message \notin
                                  { <<"Object", "exists">>,
                                    <<"Conflict:", "Object", "exists",
                                      "on", "backend">> })
             /\ th_pc[t] = 7 => t \notin lk_holders["q1"]
             /\ (th_pc[t] \in {6, 7} /\ th_pc'[t] # th_pc[t]) =>
                   th_pc'[t] = th_pc[t] + 1
             /\ (th_pc[t] = 8 /\ th_pc'[t] # 8) =>
                   /\ t \in lk_holders["q1"]
                   /\ th_pc'[t] \in {9, 0}
                   /\ th_pc'[t] = 0 =>
                         /\ th_last'[t].outcome = "raised"
                         /\ t \notin lk_holders'["q1"]
      ]_vars

\* create_policy raised something other than "Object exists", which was
\* logged, and the thread is in update_policy under the policy's lock.
C24_Witness ==
    \E t \in Threads :
        /\ th_prog[t] = SyncQosOps("q1")
        /\ th_pc[t] = 8
        /\ t \in lk_holders["q1"]
        /\ th_last[t].outcome = "caught"
        /\ th_last[t].logged
        /\ th_last[t].message = <<"Object", "not", "found">>

(***************************************************************************)
(* A full pass that raises leaves the marker alone (Spec)                  *)
(***************************************************************************)
\* C22: when the full pass raises while it submits, sync_inventory is left
\* without the marker being written, so the gate still reads Expired; only a
\* full pass that completed makes it Fresh; and the next invocation that
\* finds the backlog empty chooses the full pass again.
C22_RaisedFullPassRepeats ==
    [][/\ (sync_pc \in {"full_sg", "full_qos", "full_port"}
           /\ sync_pc' = "idle") =>
             /\ sync_pass' = "raised"
             /\ ts_age' = ts_age
             /\ ts_written_by' = ts_written_by
             /\ ts_age' = NoMarker \/ ts_age' >= SyncFullSchedule
       /\ ((ts_age = NoMarker \/ ts_age >= SyncFullSchedule)
           /\ ts_age' # NoMarker /\ ts_age' < SyncFullSchedule) =>
             /\ sync_pc = "full_ts"
             /\ sync_pass = "full"
             /\ ts_written_by' = sync_n
       /\ (sync_pass = "raised" /\ sync_n' = sync_n + 1
           /\ (ts_age = NoMarker \/ ts_age >= SyncFullSchedule)) =>
             IF Len(queue) = 0
             THEN sync_pass' = "full" /\ sync_pc' = "full_sg"
             ELSE sync_pass' = "skipped" /\ sync_pc' = "idle"
      ]_vars

\* The first invocation's full pass raised after it had submitted units, one
\* of which is executing; no marker was written, and the second invocation
\* is a full pass again.
C22_Witness ==
    /\ sync_n = 2
    /\ sync_pass = "full"
    /\ sync_pc \in {"full_sg", "full_qos", "full_port", "full_ts"}
    /\ ts_age = NoMarker
    /\ ts_written_by = 0
    /\ \E u \in running : u.pass = 1

(***************************************************************************)
(* One bulk update per run of the rule handler (SpecRules)                 *)
(***************************************************************************)
\* The positions of the steps of security_group_rule_updated that call c.
RuleUpdatedSteps(c) ==
    {i \in DOMAIN SecurityGroupRuleUpdatedOps(RuleSg) :
        SecurityGroupRuleUpdatedOps(RuleSg)[i].call = c}

\* C21: a run of security_group_rule_updated that does not raise makes
\* exactly one update_security_group_rules call, which carries the whole
\* add-list, the whole delete-list and the revision number read from the
\* source store; the call lies inside the group's lock, after the revision
\* is read; the section is what that one call leaves.
C21_OneBulkUpdate ==
    rule_call.called =>
        /\ Len(rule_call.updates) = 1
        /\ rule_call.updates[1].sg_id = RuleSg
        /\ rule_call.updates[1].revision_number = rule_call.revision
        /\ rule_call.updates[1].add_rules = rule_call.add
        /\ rule_call.updates[1].del_rules = rule_call.del
        /\ rule_section = UpdateSecurityGroupRules(rule_call.pre,
                                                   rule_call.add, rule_call.del)
        /\ Cardinality(RuleUpdatedSteps("rpc.get_security_group_revision")) = 1
        /\ Cardinality(RuleUpdatedSteps("update_security_group_rules")) = 1
        /\ \A u \in RuleUpdatedSteps("update_security_group_rules") :
              /\ SecurityGroupRuleUpdatedOps(RuleSg)[u].op = "mutate"
              /\ SecurityGroupRuleUpdatedOps(RuleSg)[u].key = RuleSg
              /\ RuleUpdatedSteps("rpc.get_security_group_revision")
                    \subseteq 1 .. (u - 1)
              /\ \E a \in 1 .. (u - 1) :
                    /\ SecurityGroupRuleUpdatedOps(RuleSg)[a]
                          = AcquireOp(RuleSg)
                    /\ \A i \in (a + 1) .. u :
                          SecurityGroupRuleUpdatedOps(RuleSg)[i].op
                              # "release"

\* A run that submitted two rules to add and a rule to delete in its one
\* call, with the revision the source store reported.
C21_Witness ==
    /\ rule_call.called
    /\ Len(rule_call.updates) = 1
    /\ Len(rule_call.updates[1].add_rules) >= 2
    /\ rule_call.updates[1].del_rules # {}
    /\ rule_call.updates[1].revision_number = MaxRuleRevision

====
